---- MODULE Spec2Model ----
(***************************************************************************)
(* A model of grpc-pipe: the per-connection PipeHandler (codec hand-off,   *)
(* in-flight window, deferred-send Deque and its pump, dispatch queue,     *)
(* heartbeat), the GrpcPipeClient reconnect state machine, the connection   *)
(* handler of GrpcPipeServer, and the codec path between two sessions.     *)
(*                                                                         *)
(* Node's run-to-completion scheduling is modelled directly: every action  *)
(* is one synchronous callback body; promise continuations live in the     *)
(* FIFO `microtasks` queue and are drained before any timer, immediate or  *)
(* I/O callback (macrotask) runs.                                          *)
(***************************************************************************)
EXTENDS Integers, Sequences, FiniteSets, TLC

\* ---------------------------------------------------------------- bounds
MaxPosts == 3          \* post() calls per session
MaxInbound == 2        \* inbound frames per session
MaxHeartbeats == 1     \* heartbeat interval firings per session
MaxWindow == 2         \* largest configured maxInFlight
MaxCores == 3          \* largest os.cpus().length
MaxPushes == 66        \* push() calls on one Deque

\* ------------------------------------------------------ program constants
DefaultBackpressureThresholdBytes == 5 * 1024 * 1024
DequeCompactAt == 64

\* ----------------------------------------------------------------- state
VARIABLES
  \* PipeHandler configuration (constructor options)
  maxInFlight,          \* 0 models `undefined` (the code tests truthiness)
  compressionEnabled,
  \* Transport (collaborator) state
  hasWritableInfo,      \* transport implements getWritableInfo()
  writableNeedDrain,
  writableLength,
  wire,                 \* frames handed to transport.send, in order
  \* PipeHandler fields
  inFlight,
  postQueue,            \* Deque: [a |-> Seq(thunk), h |-> Nat]
  pumping,
  ticks,                \* number of pending setImmediate(tick) callbacks
  microtasks,           \* FIFO of compress(...).then(send) continuations
  heartbeatTimeout,     \* TRUE while the setInterval is armed
  procWaiting,          \* fastq: tasks waiting for a slot
  procRunning,          \* fastq: number of running workers
  cores,                \* os.cpus().length
  \* bookkeeping (history)
  nextId,               \* number of post() calls issued so far
  inboundCount,
  releases,             \* decoded inbound messages whose type is in releaseOn
  hbCount,
  destroyed,            \* PipeHandler.destroy() has been called
  hbAfterDestroy,       \* a heartbeat fired after destroy()
  unhandled,            \* an exception escaped a callback / rejected promise
  \* GrpcPipeClient
  reconnectBaseDelay,   \* options.reconnectDelayMs ?? 2000
  heartbeatOpt,         \* options.heartbeat, handed to every PipeHandler
  cli,                  \* the client's fields, as a record
  streams,              \* every stream startStream() created, with its session
  readyPending,         \* ids of Clients whose waitForReady callback is outstanding
  nextClient,           \* number of `new Client(...)` so far
  \* bookkeeping (history)
  lastDelay,            \* delay handed to the last setTimeout
  streak,               \* timers scheduled since construction / the last Connected
  everConnected,
  cliDestroyed,         \* destroy() has been called
  cliClosed,            \* close() has been called (recorded in the close runs)
  cliThrew,             \* an exception escaped a client callback
  lastError,            \* code of the last stream error and whether 'error' was emitted
  \* PipeHandler: inbound dispatch
  hasSchema,            \* a schema registry is attached (else JSON fallback)
  globalListener,       \* onAny() listener is set
  callbacks,            \* type -> handlers in registration order
  running,              \* fastq: the process() calls in progress
  calls,                \* history: listener / handler invocations and settlements
  inbox,                \* history: the frames the transport delivered (dispatch runs)
  \* GrpcPipeServer
  server,               \* the server's options and whether destroy() has run
  sessions,             \* per incoming stream: the communicate handler, stream and session
  \* two sessions joined by a transport: the codec path
  link,                 \* configuration, posted values, frames in transit, delivered values
  \* the host
  built,                \* outcome of `new PipeHandler(...)`: "pending", "ok" or "threw"
  fifo                  \* history: the values pushed on the Deque and not yet shifted or killed

pipeVars == <<maxInFlight, compressionEnabled, hasWritableInfo, writableNeedDrain,
              writableLength, wire, inFlight, postQueue, pumping, ticks, microtasks,
              heartbeatTimeout, procWaiting, procRunning, cores, nextId, inboundCount,
              releases, hbCount, destroyed, hbAfterDestroy, unhandled>>

clientVars == <<reconnectBaseDelay, heartbeatOpt, cli, streams, readyPending, nextClient,
                lastDelay, streak, everConnected, cliDestroyed, cliClosed, cliThrew,
                lastError>>

dispatchVars == <<hasSchema, globalListener, callbacks, running, calls, inbox>>

serverVars == <<server, sessions>>

codecVars == <<link>>

hostVars == <<built, fifo>>

vars == <<pipeVars, clientVars, dispatchVars, serverVars, codecVars, hostVars>>

\* --------------------------------------------------------------- helpers
Min(a, b) == IF a < b THEN a ELSE b
Max(a, b) == IF a > b THEN a ELSE b

IsSystem_None(type) == FALSE
IsSystem(type) == type \in {"system_heartbeat", "system_ready"}

\* options.releaseOn; listing a system type is allowed by the constructor
ReleaseOn == {"reply", "system_heartbeat"}
PostInputs == {<<"req", "ok">>, <<"req", "encodeThrows">>, <<"req", "sendThrows">>,
               <<"system_ready", "ok">>}
\* what getWritableInfo() may report: <<writableNeedDrain, writableLength>>
WritableInfos == {<<FALSE, 0>>, <<TRUE, 0>>, <<FALSE, DefaultBackpressureThresholdBytes>>}

\* ----------------------------------------------------------------- Deque
DequeNew == [a |-> <<>>, h |-> 0]
DequePush(q, v) == [q EXCEPT !.a = Append(q.a, v)]
DequeLength(q) == Len(q.a) - q.h
\* shift(): returns the new deque and the value (defined = FALSE for undefined)
DequeShift_Pop(q) ==
  IF q.h >= Len(q.a)
  THEN [q |-> q, defined |-> FALSE, v |-> [id |-> 0, type |-> "", fate |-> ""]]
  ELSE [q |-> [q EXCEPT !.a = SubSeq(q.a, 1, Len(q.a) - 1)], defined |-> TRUE,
        v |-> q.a[Len(q.a)]]
DequeShift(q) ==
  IF q.h >= Len(q.a)
  THEN [q |-> q, defined |-> FALSE, v |-> [id |-> 0, type |-> "", fate |-> ""]]
  ELSE LET v == q.a[q.h + 1]
           h1 == q.h + 1
       IN IF h1 > DequeCompactAt /\ h1 * 2 > Len(q.a)
          THEN [q |-> [a |-> SubSeq(q.a, h1 + 1, Len(q.a)), h |-> 0], defined |-> TRUE, v |-> v]
          ELSE [q |-> [q EXCEPT !.h = h1], defined |-> TRUE, v |-> v]
DequeKill(q) == [q EXCEPT !.a = <<>>]

\* ------------------------------------------------------------- transport
getPendingBytes == IF hasWritableInfo THEN writableLength ELSE 0
isPressured ==
  IF ~hasWritableInfo THEN FALSE
  ELSE writableNeedDrain \/ getPendingBytes >= DefaultBackpressureThresholdBytes

Frame(thunk) == [id |-> thunk.id, type |-> thunk.type, pressured |-> isPressured]


\* ------------------------------------------------------------ PipeHandler
\* The part of the session that a send touches, as one record.
SendState == [inFlight |-> inFlight, microtasks |-> microtasks, wire |-> wire,
              q |-> postQueue]

\* catch-block of _sendNow: roll the window increment back
Rollback_None(s, t) == s

Rollback(s, t) ==
  [s EXCEPT !.inFlight = IF maxInFlight # 0 /\ ~IsSystem(t.type) THEN Max(0, @ - 1) ELSE @]

\* _sendNow with the compression continuations completing last-in first-out
SendNow_Lifo(s, t) ==
  LET s1 == IF maxInFlight # 0 /\ ~IsSystem(t.type)
            THEN [s EXCEPT !.inFlight = @ + 1] ELSE s
  IN IF t.fate = "encodeThrows" THEN Rollback(s1, t)
     ELSE IF compressionEnabled THEN [s1 EXCEPT !.microtasks = <<t>> \o @]
     ELSE IF t.fate = "sendThrows" THEN Rollback(s1, t)
     ELSE [s1 EXCEPT !.wire = Append(@, Frame(t))]

\* _sendNow(type, data)
SendNow(s, t) ==
  LET s1 == IF maxInFlight # 0 /\ ~IsSystem(t.type)
            THEN [s EXCEPT !.inFlight = @ + 1] ELSE s
  IN IF t.fate = "encodeThrows" THEN Rollback(s1, t)
     ELSE IF compressionEnabled THEN [s1 EXCEPT !.microtasks = Append(@, t)]
     ELSE IF t.fate = "sendThrows" THEN Rollback(s1, t)
     ELSE [s1 EXCEPT !.wire = Append(@, Frame(t))]

\* the window test of post() and pumpOnce(): maxInFlight set and no slot free
WindowFull_Gt(n) == maxInFlight # 0 /\ n > maxInFlight
WindowFull(n) == maxInFlight # 0 /\ n >= maxInFlight

\* the pressure test of pumpOnce(): only without a window
PressureBlocks_Always == isPressured
PressureBlocks == maxInFlight = 0 /\ isPressured

\* pumpOnce(): the while loop, run to its end
RECURSIVE PumpOnce(_)
PumpOnce(s) ==
  IF ~(DequeLength(s.q) > 0) THEN s
  ELSE IF WindowFull(s.inFlight) THEN s
  ELSE IF PressureBlocks THEN s
  ELSE LET r == DequeShift(s.q)
       IN IF ~r.defined THEN s
          ELSE PumpOnce(SendNow([s EXCEPT !.q = r.q], r.v))

\* fastq concurrency argument
Concurrency == cores \div 2

\* the schedulePump() call sites all test `!this.pumping` first
SchedulePumpIf_Rearm(cond, pumpingNow, ticksNow) ==
  IF cond
  THEN [pumping |-> TRUE, ticks |-> ticksNow + 1]
  ELSE [pumping |-> pumpingNow, ticks |-> ticksNow]
SchedulePumpIf(cond, pumpingNow, ticksNow) ==
  IF cond /\ ~pumpingNow
  THEN [pumping |-> TRUE, ticks |-> ticksNow + 1]
  ELSE [pumping |-> pumpingNow, ticks |-> ticksNow]

ApplySend(s) ==
  /\ inFlight' = s.inFlight
  /\ microtasks' = s.microtasks
  /\ wire' = s.wire
  /\ postQueue' = s.q

\* post(type, data)
Post(type, fate) ==
  /\ nextId < MaxPosts
  /\ nextId' = nextId + 1
  /\ LET t == [id |-> nextId + 1, type |-> type, fate |-> fate]
     IN IF ~IsSystem(type) /\ WindowFull(inFlight)
        THEN LET p == SchedulePumpIf(TRUE, pumping, ticks)
             IN /\ postQueue' = DequePush(postQueue, t)
                /\ pumping' = p.pumping
                /\ ticks' = p.ticks
                /\ UNCHANGED <<inFlight, microtasks, wire>>
        ELSE LET s == SendNow(SendState, t)
                 p == SchedulePumpIf(isPressured /\ DequeLength(s.q) > 0, pumping, ticks)
             IN /\ ApplySend(s)
                /\ pumping' = p.pumping
                /\ ticks' = p.ticks
  /\ UNCHANGED <<maxInFlight, compressionEnabled, hasWritableInfo, writableNeedDrain,
                 writableLength, heartbeatTimeout, procWaiting, procRunning, cores,
                 inboundCount, releases, hbCount, destroyed, hbAfterDestroy, unhandled>>
  /\ UNCHANGED <<clientVars, dispatchVars, serverVars, codecVars, hostVars>>

\* continuation of compress(payload).then(pz => transport.send(...))
RunMicrotask ==
  /\ microtasks # <<>>
  /\ LET t == Head(microtasks)
     IN /\ microtasks' = Tail(microtasks)
        /\ IF t.fate = "sendThrows"
           THEN /\ unhandled' = TRUE
                /\ wire' = wire
           ELSE /\ wire' = Append(wire, Frame(t))
                /\ UNCHANGED unhandled
  /\ UNCHANGED <<maxInFlight, compressionEnabled, hasWritableInfo, writableNeedDrain,
                 writableLength, inFlight, postQueue, pumping, ticks, heartbeatTimeout,
                 procWaiting, procRunning, cores, nextId, inboundCount, releases, hbCount,
                 destroyed, hbAfterDestroy>>
  /\ UNCHANGED <<clientVars, dispatchVars, serverVars, codecVars, hostVars>>

\* the `tick` closure of schedulePump(): pumpOnce().finally(...)
Tick ==
  /\ microtasks = <<>>
  /\ ticks > 0
  /\ LET s == PumpOnce(SendState)
     IN /\ ApplySend(s)
        /\ IF DequeLength(s.q) > 0
           THEN UNCHANGED <<pumping, ticks>>
           ELSE pumping' = FALSE /\ ticks' = ticks - 1
  /\ UNCHANGED <<maxInFlight, compressionEnabled, hasWritableInfo, writableNeedDrain,
                 writableLength, heartbeatTimeout, procWaiting, procRunning, cores, nextId,
                 inboundCount, releases, hbCount, destroyed, hbAfterDestroy, unhandled>>
  /\ UNCHANGED <<clientVars, dispatchVars, serverVars, codecVars, hostVars>>

\* the inbound types that have an entry in schema.receive
ReceiveEntries == {"reply", "data", "system_heartbeat"}
InboundTypes == ReceiveEntries \cup {"nosuch"}
NoCallbacks == [t \in InboundTypes |-> <<>>]

\* the onMessage callback returns before routeMessage for these types
DropsInbound_Never(type) == FALSE
DropsInbound(type) == IsSystem(type)

\* emit(): `schema.receive[type]` is missing
MissingEntry_Never(type) == FALSE
MissingEntry(type) == hasSchema /\ type \notin ReceiveEntries

\* emit(): the decoded message frees a window slot
Releases_Any(type) == maxInFlight # 0
Releases(type) == maxInFlight # 0 /\ type \in ReleaseOn

\* one entry of the invocation history
Call(m, who, ev) == [m |-> m, who |-> who, ev |-> ev]

\* The processing queue and the invocation history, as one record.
ProcState == [waiting |-> procWaiting, running |-> running, n |-> procRunning,
              calls |-> calls]

ApplyProc(ps) ==
  /\ procWaiting' = ps.waiting
  /\ running' = ps.running
  /\ procRunning' = ps.n
  /\ calls' = ps.calls

\* process() starting its loop at the handler registered last
StartProcess_LastFirst(ps, task, cbs) ==
  LET handlers == cbs[task.type]
  IN IF handlers = <<>>
     THEN [ps EXCEPT !.running = @ \cup {[m |-> task.m, type |-> "",
                                          handlers |-> <<>>, pos |-> 0, cur |-> ""]}]
     ELSE [ps EXCEPT !.running = @ \cup {[m |-> task.m, type |-> task.type,
                                          handlers |-> handlers, pos |-> Len(handlers),
                                          cur |-> handlers[Len(handlers)]]},
                     !.calls = Append(@, Call(task.m, handlers[Len(handlers)], "call"))]

\* fastq calls the worker: process() reads callbacks[type] and invokes the
\* first handler before its first await. The worker keeps the array itself
\* (handlers), the iterator's index (pos) and the handler it awaits (cur); a
\* call that found no array has returned and keeps nothing.
StartProcess(ps, task, cbs) ==
  LET handlers == cbs[task.type]
  IN IF handlers = <<>>
     THEN [ps EXCEPT !.running = @ \cup {[m |-> task.m, type |-> "",
                                          handlers |-> <<>>, pos |-> 0, cur |-> ""]}]
     ELSE [ps EXCEPT !.running = @ \cup {[m |-> task.m, type |-> task.type,
                                          handlers |-> handlers, pos |-> 1,
                                          cur |-> handlers[1]]},
                     !.calls = Append(@, Call(task.m, handlers[1], "call"))]

\* fastq push(): run now when a slot is free, otherwise wait
QueuePush(ps, task, cbs) ==
  IF ps.n >= Concurrency
  THEN [ps EXCEPT !.waiting = Append(@, task)]
  ELSE StartProcess([ps EXCEPT !.n = @ + 1], task, cbs)

\* fastq release(): the worker's promise settled; start the next waiting task
Release(ps, w, cbs) ==
  LET ps1 == [ps EXCEPT !.running = @ \ {w}]
  IN IF ps1.waiting # <<>>
     THEN StartProcess([ps1 EXCEPT !.waiting = Tail(@)], Head(ps1.waiting), cbs)
     ELSE [ps1 EXCEPT !.n = @ - 1]

\* a worker whose handler failed is never released
ProcessResume_Stuck(ps, w, ok, cbs) ==
  IF w.pos = 0 THEN Release(ps, w, cbs)
  ELSE LET h == w.cur
       IN IF ~ok
          THEN [ps EXCEPT !.calls = Append(@, Call(w.m, h, "fail")),
                          !.running = (@ \ {w}) \cup {[w EXCEPT !.handlers = <<>>,
                                                                !.pos = 0, !.cur = ""]}]
          ELSE LET ps1 == [ps EXCEPT !.calls = Append(@, Call(w.m, h, "ok"))]
               IN IF w.pos < Len(w.handlers)
                  THEN [ps1 EXCEPT
                          !.running = (@ \ {w}) \cup {[w EXCEPT !.pos = @ + 1,
                                                       !.cur = w.handlers[w.pos + 1]]},
                          !.calls = Append(@, Call(w.m, w.handlers[w.pos + 1], "call"))]
                  ELSE Release(ps1, w, cbs)

\* process() of worker w resumes after `await handler(data)`; ok = FALSE when
\* the handler threw or its promise rejected. The for-of loop reads the array
\* at its next index, whatever the array holds by then.
ProcessResume(ps, w, ok, cbs) ==
  IF w.pos = 0 THEN Release(ps, w, cbs)
  ELSE LET h == w.cur
       IN IF ~ok
          THEN Release([ps EXCEPT !.calls = Append(@, Call(w.m, h, "fail"))], w, cbs)
          ELSE LET ps1 == [ps EXCEPT !.calls = Append(@, Call(w.m, h, "ok"))]
               IN IF w.pos < Len(w.handlers)
                  THEN [ps1 EXCEPT
                          !.running = (@ \ {w}) \cup {[w EXCEPT !.pos = @ + 1,
                                                       !.cur = w.handlers[w.pos + 1]]},
                          !.calls = Append(@, Call(w.m, w.handlers[w.pos + 1], "call"))]
                  ELSE Release(ps1, w, cbs)

\* transport.onMessage callback -> routeMessage -> emit
Receive(type, good) ==
  /\ microtasks = <<>>
  /\ inboundCount < MaxInbound
  /\ inboundCount' = inboundCount + 1
  /\ LET m == inboundCount + 1
         p == SchedulePumpIf(DequeLength(postQueue) > 0, pumping, ticks)
     IN IF DropsInbound(type)
        THEN UNCHANGED <<inFlight, pumping, ticks, procWaiting, procRunning, releases,
                         unhandled, running, calls>>
        ELSE IF MissingEntry(type)
        THEN \* emit returns early; routeMessage goes on to its pump test
             /\ pumping' = p.pumping
             /\ ticks' = p.ticks
             /\ UNCHANGED <<inFlight, procWaiting, procRunning, releases, unhandled,
                            running, calls>>
        ELSE IF ~good
        THEN \* decode / JSON.parse throws inside the async routeMessage
             /\ unhandled' = TRUE
             /\ UNCHANGED <<inFlight, pumping, ticks, procWaiting, procRunning, releases,
                            running, calls>>
        ELSE LET rel == Releases(type)
                 ps == IF globalListener
                       THEN [ProcState EXCEPT !.calls = Append(@, Call(m, "any", "call"))]
                       ELSE ProcState
             IN /\ inFlight' = IF rel THEN Max(0, inFlight - 1) ELSE inFlight
                /\ releases' = IF rel THEN releases + 1 ELSE releases
                /\ pumping' = p.pumping
                /\ ticks' = p.ticks
                /\ ApplyProc(QueuePush(ps, [type |-> type, m |-> m], callbacks))
                /\ UNCHANGED unhandled
  /\ UNCHANGED <<maxInFlight, compressionEnabled, hasWritableInfo, writableNeedDrain,
                 writableLength, wire, postQueue, microtasks, heartbeatTimeout, cores,
                 nextId, hbCount, destroyed, hbAfterDestroy>>
  /\ UNCHANGED <<hasSchema, globalListener, callbacks>>
  /\ UNCHANGED <<clientVars, serverVars, codecVars, hostVars>>

\* the promise a fastq worker awaits settles
ProcDone(w, ok) ==
  /\ w \in running
  /\ ApplyProc(ProcessResume(ProcState, w, ok, callbacks))
  /\ UNCHANGED inbox
  /\ UNCHANGED <<maxInFlight, compressionEnabled, hasWritableInfo, writableNeedDrain,
                 writableLength, wire, inFlight, postQueue, pumping, ticks, microtasks,
                 heartbeatTimeout, cores, nextId, inboundCount, releases, hbCount,
                 destroyed, hbAfterDestroy, unhandled>>
  /\ UNCHANGED <<hasSchema, globalListener, callbacks>>
  /\ UNCHANGED <<clientVars, serverVars, codecVars, hostVars>>

\* the setInterval callback armed by the constructor
HeartbeatFire ==
  /\ microtasks = <<>>
  /\ heartbeatTimeout
  /\ hbCount < MaxHeartbeats
  /\ hbCount' = hbCount + 1
  /\ wire' = Append(wire, [id |-> 0, type |-> "system_heartbeat",
                           pressured |-> isPressured])
  /\ hbAfterDestroy' = (hbAfterDestroy \/ destroyed)
  /\ UNCHANGED <<maxInFlight, compressionEnabled, hasWritableInfo, writableNeedDrain,
                 writableLength, inFlight, postQueue, pumping, ticks, microtasks,
                 heartbeatTimeout, procWaiting, procRunning, cores, nextId, inboundCount,
                 releases, destroyed, unhandled>>
  /\ UNCHANGED <<clientVars, dispatchVars, serverVars, codecVars, hostVars>>

\* destroy(): destroyHeartBeat, callbacks = {}, postQueue.kill(), queue.kill()
DestroyState == [hb |-> heartbeatTimeout, q |-> postQueue, waiting |-> procWaiting,
                 callbacks |-> callbacks]
PipeDestroyOf(d) == [hb |-> FALSE, q |-> DequeKill(d.q), waiting |-> <<>>,
                     callbacks |-> NoCallbacks]
Destroy ==
  /\ destroyed' = TRUE
  /\ LET d == PipeDestroyOf(DestroyState)
     IN /\ heartbeatTimeout' = d.hb
        /\ postQueue' = d.q
        /\ procWaiting' = d.waiting
        /\ callbacks' = d.callbacks
  /\ UNCHANGED <<hasSchema, globalListener, running, calls, inbox>>
  /\ UNCHANGED <<maxInFlight, compressionEnabled, hasWritableInfo, writableNeedDrain,
                 writableLength, wire, inFlight, pumping, ticks, microtasks, procRunning,
                 cores, nextId, inboundCount, releases, hbCount, hbAfterDestroy, unhandled>>
  /\ UNCHANGED <<clientVars, serverVars, codecVars, hostVars>>

\* arr.indexOf(h), counted from 1; 0 when h is not in the array
IndexOf(arr, h) ==
  IF \E k \in 1..Len(arr) : arr[k] = h
  THEN CHOOSE k \in 1..Len(arr) : arr[k] = h /\ \A j \in 1..(k - 1) : arr[j] # h
  ELSE 0
\* arr.splice(i, 1)
Splice(arr, i) == SubSeq(arr, 1, i - 1) \o SubSeq(arr, i + 1, Len(arr))

\* off(type, callback): the array of the type is changed in place, so every
\* process() call that iterates it sees the change
Off(type, h) ==
  /\ LET arr == callbacks[type]
         i == IndexOf(arr, h)
     IN IF arr = <<>> \/ i = 0
        THEN UNCHANGED <<callbacks, running>>
        ELSE /\ callbacks' = [callbacks EXCEPT ![type] = Splice(arr, i)]
             /\ running' = {IF w.type = type /\ w.pos > 0
                            THEN [w EXCEPT !.handlers = Splice(@, i)]
                            ELSE w : w \in running}
  /\ UNCHANGED <<hasSchema, globalListener, calls, inbox>>
  /\ UNCHANGED <<pipeVars, clientVars, serverVars, codecVars, hostVars>>

\* the collaborator's write buffer fills or drains
TransportChange(nd, len) ==
  /\ hasWritableInfo
  /\ <<nd, len>> # <<writableNeedDrain, writableLength>>
  /\ writableNeedDrain' = nd
  /\ writableLength' = len
  /\ UNCHANGED <<maxInFlight, compressionEnabled, hasWritableInfo, wire, inFlight, postQueue,
                 pumping, ticks, microtasks, heartbeatTimeout, procWaiting, procRunning,
                 cores, nextId, inboundCount, releases, hbCount, destroyed,
                 hbAfterDestroy, unhandled>>
  /\ UNCHANGED <<clientVars, dispatchVars, serverVars, codecVars, hostVars>>

\* handlers registered with on(): two for "data", one for every other type
Registered == [t \in InboundTypes |-> IF t = "data" THEN <<"h1", "h2">> ELSE <<"h1">>]

\* a session without onAny() listener and without on() handlers
NoDispatch == hasSchema /\ ~globalListener /\ callbacks = NoCallbacks

\* state right after `new PipeHandler(transport, schema, options)` and the
\* application's onAny() / on() registrations
InitPipeOn(coreCounts) ==
  /\ maxInFlight \in 0..MaxWindow
  /\ compressionEnabled \in BOOLEAN
  /\ hasWritableInfo \in BOOLEAN
  /\ writableNeedDrain = FALSE
  /\ writableLength = 0
  /\ wire = <<>>
  /\ inFlight = 0
  /\ postQueue = DequeNew
  /\ pumping = FALSE
  /\ ticks = 0
  /\ microtasks = <<>>
  /\ heartbeatTimeout \in BOOLEAN
  /\ procWaiting = <<>>
  /\ procRunning = 0
  /\ cores \in coreCounts
  /\ nextId = 0
  /\ inboundCount = 0
  /\ releases = 0
  /\ hbCount = 0
  /\ destroyed = FALSE
  /\ hbAfterDestroy = FALSE
  /\ unhandled = FALSE
  /\ hasSchema \in BOOLEAN
  /\ globalListener \in BOOLEAN
  /\ callbacks \in {NoCallbacks, Registered}
  /\ running = {}
  /\ calls = <<>>
  /\ inbox = <<>>
\* the constructor has returned on a host with two or four cores
InitPipe == InitPipeOn({2, 4}) /\ built = "ok" /\ fifo = <<>>

\* ---------------------------------------------------------- GrpcPipeClient
MaxClients == 3        \* `new Client(...)` calls per GrpcPipeClient

maxReconnectDelay == 30000
DefaultReconnectDelayMs == 2000
BaseDelays == {DefaultReconnectDelayMs, 20000}
StreamEvents == {"metadata", "error", "end", "close"}
\* UNAVAILABLE, INTERNAL, DEADLINE_EXCEEDED
knownDisconnectCodes == {14, 13, 4}
\* gRPC status codes a stream error may carry (2 = UNKNOWN)
ErrorCodes == knownDisconnectCodes \cup {2}

\* The client's mutable state and its history, as one record.
ClientState ==
  [cli |-> cli, streams |-> streams, readyPending |-> readyPending,
   nextClient |-> nextClient,
   lastDelay |-> lastDelay, streak |-> streak, everConnected |-> everConnected,
   cliThrew |-> cliThrew, lastError |-> lastError]

ApplyClient(st) ==
  /\ cli' = st.cli
  /\ streams' = st.streams
  /\ readyPending' = st.readyPending
  /\ nextClient' = st.nextClient
  /\ lastDelay' = st.lastDelay
  /\ streak' = st.streak
  /\ everConnected' = st.everConnected
  /\ cliThrew' = st.cliThrew
  /\ lastError' = st.lastError

\* the delay computed by scheduleReconnect()
NextDelay_NoCap(cur) == cur * 2
NextDelay(cur) == Min(cur * 2, maxReconnectDelay)

\* scheduleReconnect() without the shouldReconnect test
ScheduleReconnect_NoGuard(st) ==
  IF st.cli.reconnectTimeout # 0 THEN st
  ELSE LET d == NextDelay(st.cli.currentReconnectDelay)
       IN [st EXCEPT !.cli.currentReconnectDelay = d,
                     !.cli.reconnectTimeout = d,
                     !.lastDelay = d,
                     !.streak = @ + 1]

\* scheduleReconnect(); reconnectTimeout holds the armed timer's delay, 0 when unset
ScheduleReconnect(st) ==
  IF ~st.cli.shouldReconnect \/ st.cli.reconnectTimeout # 0 THEN st
  ELSE LET d == NextDelay(st.cli.currentReconnectDelay)
       IN [st EXCEPT !.cli.currentReconnectDelay = d,
                     !.cli.reconnectTimeout = d,
                     !.lastDelay = d,
                     !.streak = @ + 1]

\* connect(): guard, new Client, waitForReady
Connect(st) ==
  IF st.cli.isReconnecting THEN st
  ELSE LET id == st.nextClient + 1
       IN [st EXCEPT !.cli.isReconnecting = TRUE,
                     !.cli.shouldReconnect = TRUE,
                     !.cli.client = id,
                     !.nextClient = id,
                     !.readyPending = @ \cup {id}]

\* PipeHandler.destroy(), as far as the client can observe it
PipeDestroyed(s) == [s EXCEPT !.pipeHb = FALSE, !.pipeDestroyed = TRUE]

\* startStream(); initOk = FALSE when `new PipeHandler` throws
StartStream(st, initOk) ==
  IF st.cli.client = 0
  THEN [st EXCEPT !.cliThrew = TRUE]        \* this.client!.makeBidiStreamRequest
  ELSE LET id == Len(st.streams) + 1
           s == [listeners |-> initOk, fired |-> {}, pipeHb |-> initOk /\ heartbeatOpt,
                 pipeBuilt |-> initOk, pipeDestroyed |-> FALSE, delivered |-> FALSE,
                 disconnected |-> 0]
       IN [st EXCEPT !.streams = Append(@, s), !.cli.stream = id]

\* the waitForReady callback
ReadyCallback(st, id, ok, initOk) ==
  LET st1 == [st EXCEPT !.readyPending = @ \ {id}]
  IN IF ~ok
     THEN LET st2 == [st1 EXCEPT !.cli.client = 0]
              st3 == ScheduleReconnect(st2)
          IN [st3 EXCEPT !.cli.isReconnecting = FALSE]
     ELSE StartStream(st1, initOk)

\* handleDisconnect of stream i
HandleDisconnect(st, i) ==
  LET st1 == [st EXCEPT !.streams[i] = PipeDestroyed(@),
                        !.cli.connected = FALSE,
                        !.cli.isReconnecting = FALSE]
      st2 == ScheduleReconnect(st1)
  IN [st2 EXCEPT !.streams[i].disconnected = @ + 1]      \* emit('disconnected')

\* the error listener's test of the gRPC status code
IsKnownDisconnect_None(code) == FALSE
IsKnownDisconnect(code) == code \in knownDisconnectCodes

\* the 'error' listener of stream i
OnError(st, i, code) ==
  LET st1 == [st EXCEPT !.lastError = [code |-> code,
                                       emitted |-> ~IsKnownDisconnect(code)]]
  IN HandleDisconnect(st1, i)

\* the 'metadata' listener of stream i
OnMetadata(st, i) ==
  IF ~st.cli.connected
  THEN [st EXCEPT !.cli.connected = TRUE,
                  !.cli.currentReconnectDelay = reconnectBaseDelay,
                  !.streams[i].delivered = TRUE,
                  !.streak = 0,
                  !.everConnected = TRUE]
  ELSE st

\* destroy()
ClientDestroyOf(st) ==
  [st EXCEPT !.cli.shouldReconnect = FALSE,
             !.cli.isReconnecting = TRUE,
             !.cli.reconnectTimeout = 0,
             !.streams = IF st.cli.stream # 0
                         THEN [@ EXCEPT ![st.cli.stream].listeners = FALSE] ELSE @,
             !.cli.stream = 0,
             !.cli.client = 0,
             !.cli.connected = FALSE]

\* close()
ClientCloseOf(st) ==
  [st EXCEPT !.cli.reconnectTimeout = 0]

ReadyResult(id, ok, initOk) ==
  /\ id \in readyPending
  /\ ApplyClient(ReadyCallback(ClientState, id, ok, initOk))
  /\ UNCHANGED <<reconnectBaseDelay, heartbeatOpt, cliDestroyed, cliClosed>>
  /\ UNCHANGED <<pipeVars, dispatchVars, serverVars, codecVars, hostVars>>

StreamEvent(i, ev, code) ==
  /\ i \in 1..Len(streams)
  /\ streams[i].listeners
  /\ ev \notin streams[i].fired
  /\ "close" \notin streams[i].fired
  /\ ev = "metadata" => streams[i].fired = {}
  /\ (ev = "error") = (code # 0)
  /\ LET st == [ClientState EXCEPT !.streams[i].fired = @ \cup {ev}]
     IN ApplyClient(IF ev = "metadata" THEN OnMetadata(st, i)
                    ELSE IF ev = "error" THEN OnError(st, i, code)
                    ELSE HandleDisconnect(st, i))
  /\ UNCHANGED <<reconnectBaseDelay, heartbeatOpt, cliDestroyed, cliClosed>>
  /\ UNCHANGED <<pipeVars, dispatchVars, serverVars, codecVars, hostVars>>

\* the setTimeout callback armed by scheduleReconnect()
TimerFire ==
  /\ cli.reconnectTimeout # 0
  /\ cli.isReconnecting \/ nextClient < MaxClients
  /\ ApplyClient(Connect([ClientState EXCEPT !.cli.reconnectTimeout = 0]))
  /\ UNCHANGED <<reconnectBaseDelay, heartbeatOpt, cliDestroyed, cliClosed>>
  /\ UNCHANGED <<pipeVars, dispatchVars, serverVars, codecVars, hostVars>>

ClientDestroy ==
  /\ cliDestroyed' = TRUE
  /\ ApplyClient(ClientDestroyOf(ClientState))
  /\ UNCHANGED <<reconnectBaseDelay, heartbeatOpt, cliClosed>>
  /\ UNCHANGED <<pipeVars, dispatchVars, serverVars, codecVars, hostVars>>

ClientClose ==
  /\ ApplyClient(ClientCloseOf(ClientState))
  /\ UNCHANGED <<reconnectBaseDelay, heartbeatOpt, cliDestroyed>>
  /\ UNCHANGED <<pipeVars, dispatchVars, serverVars, codecVars, hostVars>>

\* the heartbeat interval of the session bound to stream i
SessionHeartbeat(i) ==
  /\ i \in 1..Len(streams)
  /\ streams[i].pipeHb
  /\ UNCHANGED clientVars
  /\ UNCHANGED <<pipeVars, dispatchVars, serverVars, codecVars, hostVars>>

\* no client: the value of the client variables in the session specifications
NoClient ==
  /\ reconnectBaseDelay = DefaultReconnectDelayMs
  /\ heartbeatOpt = FALSE
  /\ cli = [client |-> 0, reconnectTimeout |-> 0, shouldReconnect |-> TRUE,
            currentReconnectDelay |-> DefaultReconnectDelayMs, connected |-> FALSE,
            isReconnecting |-> FALSE, stream |-> 0]
  /\ streams = <<>>
  /\ readyPending = {}
  /\ nextClient = 0
  /\ lastDelay = 0
  /\ streak = 0
  /\ everConnected = FALSE
  /\ cliDestroyed = FALSE
  /\ cliClosed = FALSE
  /\ cliThrew = FALSE
  /\ lastError = [code |-> 0, emitted |-> FALSE]

\* field initialisers and constructor of GrpcPipeClient: ends with connect()
InitClient ==
  /\ reconnectBaseDelay \in BaseDelays
  /\ heartbeatOpt = TRUE
  /\ LET st0 == [cli |-> [client |-> 0, reconnectTimeout |-> 0, shouldReconnect |-> TRUE,
                          currentReconnectDelay |-> reconnectBaseDelay,
                          connected |-> FALSE, isReconnecting |-> FALSE, stream |-> 0],
                 streams |-> <<>>, readyPending |-> {},
                 nextClient |-> 0, lastDelay |-> 0, streak |-> 0,
                 everConnected |-> FALSE, cliThrew |-> FALSE,
                 lastError |-> [code |-> 0, emitted |-> FALSE]]
         st == Connect(st0)
     IN /\ cli = st.cli
        /\ streams = st.streams
        /\ readyPending = st.readyPending
        /\ nextClient = st.nextClient
        /\ lastDelay = st.lastDelay
        /\ streak = st.streak
        /\ everConnected = st.everConnected
        /\ cliThrew = st.cliThrew
        /\ lastError = st.lastError
  /\ cliDestroyed = FALSE
  /\ cliClosed = FALSE

\* no session: the value of the session variables in the client specification
NoPipe ==
  /\ InitPipe
  /\ maxInFlight = 0
  /\ ~compressionEnabled
  /\ ~hasWritableInfo
  /\ ~heartbeatTimeout
  /\ cores = 2
  /\ NoDispatch

\* ------------------------------------------------------------ codec path
\* Payloads are sequences of one-character strings. A value is an atom or a
\* flat array of atoms: what JSON.stringify keeps and a schema entry describes.
Atoms == {[kind |-> "num", text |-> "7"], [kind |-> "str", text |-> "7"],
          [kind |-> "str", text |-> "a"], [kind |-> "null", text |-> "-"]}
AtomOf(a) == [arr |-> FALSE, items |-> <<a>>]
ArrayOf(items) == [arr |-> TRUE, items |-> items]
Values ==
  {AtomOf(a) : a \in Atoms} \cup {ArrayOf(<<>>)} \cup {ArrayOf(<<a>>) : a \in Atoms}
    \cup {ArrayOf(<<a, b>>) : a \in Atoms, b \in Atoms}
\* the values the application posts in the runs
PostedValues ==
  {AtomOf([kind |-> "num", text |-> "7"]), AtomOf([kind |-> "str", text |-> "7"]),
   AtomOf([kind |-> "null", text |-> "-"]), ArrayOf(<<>>),
   ArrayOf(<<[kind |-> "str", text |-> "a"], [kind |-> "num", text |-> "7"]>>)}

NoAtom == [ok |-> FALSE, atom |-> [kind |-> "null", text |-> "-"], next |-> 0]
NoItems == [ok |-> FALSE, items |-> <<>>, next |-> 0]
NoValue == [ok |-> FALSE, value |-> ArrayOf(<<>>)]
NoBytes == [ok |-> FALSE, bytes |-> <<>>]

\* JSON.stringify of an atom, with a string left without its quotes
StringifyAtom_Bare(a) ==
  IF a.kind = "null" THEN <<"n", "u", "l", "l">> ELSE <<a.text>>

\* JSON.stringify of an atom
StringifyAtom(a) ==
  CASE a.kind = "num" -> <<a.text>>
    [] a.kind = "str" -> <<"\"", a.text, "\"">>
    [] OTHER -> <<"n", "u", "l", "l">>

RECURSIVE JoinAtoms(_)
JoinAtoms(items) ==
  IF items = <<>> THEN <<>>
  ELSE IF Len(items) = 1 THEN StringifyAtom(items[1])
  ELSE StringifyAtom(items[1]) \o <<",">> \o JoinAtoms(Tail(items))

\* Buffer.from(JSON.stringify(data))
Stringify(v) ==
  IF v.arr THEN <<"[">> \o JoinAtoms(v.items) \o <<"]">> ELSE StringifyAtom(v.items[1])

\* JSON.parse: the atom that starts at position i
ParseAtom(b, i) ==
  IF i > Len(b) THEN NoAtom
  ELSE IF b[i] = "\""
       THEN IF i + 2 <= Len(b) /\ b[i + 2] = "\""
            THEN [ok |-> TRUE, atom |-> [kind |-> "str", text |-> b[i + 1]], next |-> i + 3]
            ELSE NoAtom
  ELSE IF b[i] = "n"
       THEN IF i + 3 <= Len(b) /\ SubSeq(b, i, i + 3) = <<"n", "u", "l", "l">>
            THEN [ok |-> TRUE, atom |-> [kind |-> "null", text |-> "-"], next |-> i + 4]
            ELSE NoAtom
  ELSE IF b[i] \in {"0", "1", "2", "3", "4", "5", "6", "7", "8", "9"}
       THEN [ok |-> TRUE, atom |-> [kind |-> "num", text |-> b[i]], next |-> i + 1]
  ELSE NoAtom

\* JSON.parse: the elements of an array from position i to the closing bracket
RECURSIVE ParseItems(_, _, _)
ParseItems(b, i, acc) ==
  LET r == ParseAtom(b, i)
  IN IF ~r.ok \/ r.next > Len(b) THEN NoItems
     ELSE IF b[r.next] = "]"
          THEN [ok |-> TRUE, items |-> Append(acc, r.atom), next |-> r.next + 1]
     ELSE IF b[r.next] = "," THEN ParseItems(b, r.next + 1, Append(acc, r.atom))
     ELSE NoItems

\* JSON.parse(buffer.toString()); ok is FALSE where it throws
Parse(b) ==
  IF b = <<>> THEN NoValue
  ELSE IF b[1] = "["
       THEN IF Len(b) >= 2 /\ b[2] = "]"
            THEN IF Len(b) = 2 THEN [ok |-> TRUE, value |-> ArrayOf(<<>>)] ELSE NoValue
            ELSE LET r == ParseItems(b, 2, <<>>)
                 IN IF r.ok /\ r.next = Len(b) + 1
                    THEN [ok |-> TRUE, value |-> ArrayOf(r.items)] ELSE NoValue
  ELSE LET r == ParseAtom(b, 1)
       IN IF r.ok /\ r.next = Len(b) + 1
          THEN [ok |-> TRUE, value |-> AtomOf(r.atom)] ELSE NoValue

\* schema.send[type].encode(data).finish(): tagged fields, "R" opening a
\* repeated field (the generated protobuf codecs are not part of the sources)
EncodeField(a) ==
  IF a.kind = "null" THEN <<"Z">>
  ELSE <<(IF a.kind = "num" THEN "N" ELSE "S"), a.text>>

RECURSIVE EncodeFields(_)
EncodeFields(items) ==
  IF items = <<>> THEN <<>> ELSE EncodeField(items[1]) \o EncodeFields(Tail(items))

SchemaEncode(v) == (IF v.arr THEN <<"R">> ELSE <<"V">>) \o EncodeFields(v.items)

RECURSIVE DecodeFields(_, _, _)
DecodeFields(b, i, acc) ==
  IF i > Len(b) THEN [ok |-> TRUE, items |-> acc, next |-> i]
  ELSE IF b[i] = "Z"
       THEN DecodeFields(b, i + 1, Append(acc, [kind |-> "null", text |-> "-"]))
  ELSE IF b[i] \in {"N", "S"} /\ i + 1 <= Len(b)
       THEN DecodeFields(b, i + 2,
                         Append(acc, [kind |-> (IF b[i] = "N" THEN "num" ELSE "str"),
                                      text |-> b[i + 1]]))
  ELSE NoItems

\* schema.receive[type].decode(raw)
SchemaDecode(b) ==
  IF b = <<>> \/ b[1] \notin {"R", "V"} THEN NoValue
  ELSE LET r == DecodeFields(b, 2, <<>>)
       IN IF ~r.ok THEN NoValue
          ELSE IF b[1] = "R" THEN [ok |-> TRUE, value |-> ArrayOf(r.items)]
          ELSE IF Len(r.items) = 1 THEN [ok |-> TRUE, value |-> AtomOf(r.items[1])]
          ELSE NoValue

\* the `setting` argument of compress / decompress: absent, or a codec
Settings == {"none", "snappy", "gzip"}

\* zlib.gzip / zlib.gunzipSync and snappy.compress / snappy.uncompressSync:
\* lossless framings that reject what they did not produce
Gzip(b) == <<"1f8b">> \o b \o <<"crc">>
Gunzip(z) ==
  IF Len(z) >= 2 /\ z[1] = "1f8b" /\ z[Len(z)] = "crc"
  THEN [ok |-> TRUE, bytes |-> SubSeq(z, 2, Len(z) - 1)] ELSE NoBytes
SnappyCompress(b) == <<"len">> \o b
SnappyUncompress(z) ==
  IF Len(z) >= 1 /\ z[1] = "len" THEN [ok |-> TRUE, bytes |-> Tail(z)] ELSE NoBytes

\* compress(buf, setting)
compress(buf, setting) ==
  IF setting = "none" THEN buf
  ELSE IF setting = "gzip" THEN Gzip(buf)
  ELSE SnappyCompress(buf)

\* decompress(buf, setting); ok is FALSE where it throws
decompress(buf, setting) ==
  IF setting = "none" THEN [ok |-> TRUE, bytes |-> buf]
  ELSE IF setting = "gzip" THEN Gunzip(buf)
  ELSE SnappyUncompress(buf)

\* _sendNow: the encoded payload, before compression
Encoded(v) == IF link.schema THEN SchemaEncode(v) ELSE Stringify(v)

\* emit: decompress, then decode; PipeHandler passes no setting to either call
Decoded(payload) ==
  LET raw == IF link.compression THEN decompress(payload, "none")
             ELSE [ok |-> TRUE, bytes |-> payload]
  IN IF ~raw.ok THEN NoValue
     ELSE IF link.schema THEN SchemaDecode(raw.bytes)
     ELSE Parse(raw.bytes)

\* post(type, data) on the sending session
LinkPost(v) ==
  /\ Len(link.posted) < MaxPosts
  /\ link' = IF link.compression
             THEN [link EXCEPT !.posted = Append(@, v),
                               !.compressing = Append(@, Encoded(v))]
             ELSE [link EXCEPT !.posted = Append(@, v),
                               !.channel = Append(@, Encoded(v))]
  /\ UNCHANGED <<pipeVars, clientVars, dispatchVars, serverVars, hostVars>>

\* compress(payload).then(pz => transport.send(...)) of the oldest pending send
LinkCompressed ==
  /\ link.compressing # <<>>
  /\ link' = [link EXCEPT !.compressing = Tail(@),
                          !.channel = Append(@, compress(Head(link.compressing), "none"))]
  /\ UNCHANGED <<pipeVars, clientVars, dispatchVars, serverVars, hostVars>>

\* the receiving session's transport delivers the oldest frame: emit
LinkDeliver ==
  /\ link.channel # <<>>
  /\ LET r == Decoded(Head(link.channel))
     IN link' = IF r.ok
                THEN [link EXCEPT !.channel = Tail(@), !.delivered = Append(@, r.value)]
                ELSE [link EXCEPT !.channel = Tail(@), !.lost = TRUE]
  /\ UNCHANGED <<pipeVars, clientVars, dispatchVars, serverVars, hostVars>>

\* no link: the value of the codec variable in the other specifications
NoLink ==
  link = [schema |-> FALSE, compression |-> FALSE, posted |-> <<>>, compressing |-> <<>>,
          channel |-> <<>>, delivered |-> <<>>, lost |-> FALSE]

\* two sessions constructed with the same schema and compression options
InitLink ==
  link \in [schema : BOOLEAN, compression : BOOLEAN, posted : {<<>>}, compressing : {<<>>},
            channel : {<<>>}, delivered : {<<>>}, lost : {FALSE}]

\* ------------------------------------------------------- GrpcPipeServer
\* what application code does with the session it is handed (a hook, a listener)
HookActs == {"none", "onAny", "post"}
\* the stream events the communicate handler listens to
ServerStreamEvents == {"close", "end", "error"}

\* an incoming stream the communicate handler has not been called for yet
NewSession ==
  [phase |-> "none", fired |-> {}, streamDestroyed |-> FALSE, listeners |-> {},
   pipe |-> "none", anyOwner |-> "none", inStreams |-> FALSE, connection |-> FALSE,
   disconnected |-> 0, frames |-> <<>>, decoded |-> 0, early |-> 0, incoming |-> 0,
   failed |-> FALSE]

\* application code holding the session: pipe.onAny(cb) or pipe.post(...)
\* (the server's sessions have no window and the fresh stream is not pressured)
AppUses(x, act) ==
  CASE act = "onAny" -> [x EXCEPT !.anyOwner = "app"]
    [] act = "post" -> [x EXCEPT !.frames = Append(@, "hello")]
    [] OTHER -> x

\* the catch blocks of the communicate handler: stream.destroy(err); return
Reject(x) == [x EXCEPT !.streamDestroyed = TRUE, !.phase = "rejected"]

\* PipeHandler.destroy() of a session: stops its heartbeat
SessionDestroy(x) == [x EXCEPT !.pipe = IF @ = "none" THEN "none" ELSE "destroyed"]

\* the tail of the communicate handler, after the hooks: onAny, 'connection',
\* streams.set, the three once-listeners, the system_ready write
Accept_Silent(x, listening, act) ==
  LET a == [x EXCEPT !.anyOwner = "server"]
      b == IF listening THEN AppUses([a EXCEPT !.connection = TRUE], act) ELSE a
  IN [b EXCEPT !.inStreams = TRUE, !.listeners = ServerStreamEvents, !.phase = "open"]

Accept(x, listening, act) ==
  LET a == [x EXCEPT !.anyOwner = "server"]
      b == IF listening THEN AppUses([a EXCEPT !.connection = TRUE], act) ELSE a
  IN [b EXCEPT !.inStreams = TRUE, !.listeners = ServerStreamEvents,
               !.frames = Append(@, "system_ready"), !.phase = "open"]

\* the settlement of `await this.options.onConnect(pipe)`
OnConnectResult_Ignored(x, ok, listening, act) == Accept(x, listening, act)

OnConnectResult(x, ok, listening, act) ==
  IF ok THEN Accept(x, listening, act) ELSE Reject(x)

\* session construction and the call of the onConnect hook, which runs up to
\* its first await inside this callback
BuildSession(x, pipeOk, hasOnConnect, hookAct, listening, act) ==
  IF ~pipeOk THEN Reject(x)
  ELSE LET p == [x EXCEPT !.pipe = "live"]
       IN IF hasOnConnect THEN AppUses([p EXCEPT !.phase = "onConnect"], hookAct)
          ELSE Accept(p, listening, act)

\* handleDisconnect of one stream
ServerHandleDisconnect(x) ==
  SessionDestroy(IF x.inStreams
                 THEN [x EXCEPT !.inStreams = FALSE, !.disconnected = @ + 1]
                 ELSE x)

\* the body of the loop of GrpcPipeServer.destroy() for one map entry
ServerDestroyOne(x) ==
  IF x.inStreams
  THEN [SessionDestroy(x) EXCEPT !.streamDestroyed = TRUE, !.disconnected = @ + 1,
                                 !.inStreams = FALSE]
  ELSE x

HeartbeatsOf(x) == Cardinality({k \in 1..Len(x.frames) : x.frames[k] = "system_heartbeat"})

\* communicate: a stream arrives; runs to the first await
Communicate(s, pipeOk, hookAct, act) ==
  /\ s \in 1..Len(sessions)
  /\ sessions[s].phase = "none"
  /\ ~server.destroyed
  /\ sessions' = [sessions EXCEPT ![s] =
       IF server.beforeConnect THEN [@ EXCEPT !.phase = "beforeConnect"]
       ELSE [BuildSession(@, pipeOk, server.onConnect, hookAct, server.listening, act)
               EXCEPT !.failed = ~pipeOk]]
  /\ UNCHANGED <<server, pipeVars, clientVars, dispatchVars, codecVars, hostVars>>

\* the beforeConnect hook settles
BeforeConnectDone(s, ok, pipeOk, hookAct, act) ==
  /\ s \in 1..Len(sessions)
  /\ sessions[s].phase = "beforeConnect"
  /\ sessions' = [sessions EXCEPT ![s] =
       [(IF ok THEN BuildSession(@, pipeOk, server.onConnect, hookAct, server.listening, act)
               ELSE Reject(@))
          EXCEPT !.failed = ~ok \/ ~pipeOk]]
  /\ UNCHANGED <<server, pipeVars, clientVars, dispatchVars, codecVars, hostVars>>

\* the onConnect hook settles
OnConnectDone(s, ok, act) ==
  /\ s \in 1..Len(sessions)
  /\ sessions[s].phase = "onConnect"
  /\ sessions' = [sessions EXCEPT ![s] =
       [OnConnectResult(@, ok, server.listening, act) EXCEPT !.failed = ~ok]]
  /\ UNCHANGED <<server, pipeVars, clientVars, dispatchVars, codecVars, hostVars>>

\* the stream emits 'end', 'error' or 'close'; 'close' is its last event
ServerStreamEvent(s, ev) ==
  /\ s \in 1..Len(sessions)
  /\ sessions[s].phase # "none"
  /\ ev \notin sessions[s].fired
  /\ "close" \notin sessions[s].fired
  /\ sessions[s].streamDestroyed => ev = "close"
  /\ sessions' = [sessions EXCEPT ![s] =
       LET x == [@ EXCEPT !.fired = @ \cup {ev}, !.listeners = @ \ {ev},
                          !.streamDestroyed = @ \/ ev \in {"error", "close"}]
       IN IF ev \in sessions[s].listeners THEN ServerHandleDisconnect(x) ELSE x]
  /\ UNCHANGED <<server, pipeVars, clientVars, dispatchVars, codecVars, hostVars>>

\* a frame arrives on the stream and decodes: the session's global listener
ServerReceive(s) ==
  /\ s \in 1..Len(sessions)
  /\ sessions[s].pipe # "none"
  /\ ~sessions[s].streamDestroyed
  /\ "end" \notin sessions[s].fired
  /\ sessions[s].decoded < MaxInbound
  /\ sessions' = [sessions EXCEPT ![s] =
       [@ EXCEPT !.decoded = @ + 1,
                 !.early = IF sessions[s].phase = "open" THEN @ ELSE @ + 1,
                 !.incoming = IF sessions[s].anyOwner = "server" THEN @ + 1 ELSE @]]
  /\ UNCHANGED <<server, pipeVars, clientVars, dispatchVars, codecVars, hostVars>>

\* the heartbeat interval of a session fires
ServerHeartbeat(s) ==
  /\ s \in 1..Len(sessions)
  /\ sessions[s].pipe = "live"
  /\ server.heartbeat
  /\ HeartbeatsOf(sessions[s]) < MaxHeartbeats
  /\ sessions' = [sessions EXCEPT ![s] = [@ EXCEPT !.frames = Append(@, "system_heartbeat")]]
  /\ UNCHANGED <<server, pipeVars, clientVars, dispatchVars, codecVars, hostVars>>

\* GrpcPipeServer.destroy()
ServerDestroy ==
  /\ ~server.destroyed
  /\ sessions' = [s \in 1..Len(sessions) |-> ServerDestroyOne(sessions[s])]
  /\ server' = [server EXCEPT !.destroyed = TRUE, !.listening = FALSE]
  /\ UNCHANGED <<pipeVars, clientVars, dispatchVars, codecVars, hostVars>>

\* no server: the value of the server variables in the other specifications
NoServer ==
  /\ server = [beforeConnect |-> FALSE, onConnect |-> FALSE, heartbeat |-> FALSE,
               listening |-> FALSE, destroyed |-> FALSE]
  /\ sessions = <<>>

\* constructor of GrpcPipeServer, with the application's listeners attached, and
\* one incoming stream: the handler's state is local to its call, and the
\* streams map, keyed by the stream, is all that two calls share
InitServer ==
  /\ server \in [beforeConnect : BOOLEAN, onConnect : BOOLEAN, heartbeat : BOOLEAN,
                 listening : {TRUE}, destroyed : {FALSE}]
  /\ sessions = <<NewSession>>

\* ---------------------------------------------------------- specifications
DoPost == \E in \in PostInputs : Post(in[1], in[2])
InboundInputs == {<<"reply", TRUE>>, <<"reply", FALSE>>, <<"data", TRUE>>,
                  <<"system_heartbeat", TRUE>>}
DoReceive == \E in \in InboundInputs : Receive(in[1], in[2]) /\ UNCHANGED inbox
DoProcDone == \E w \in running, ok \in BOOLEAN : ProcDone(w, ok)
DoTransportChange == \E w \in WritableInfos : TransportChange(w[1], w[2])

DoReadyResult == \E id \in 1..MaxClients, ok \in BOOLEAN, initOk \in BOOLEAN :
                   ReadyResult(id, ok, initOk)
\* stream events; every error carries UNAVAILABLE
DoStreamEvent == \E i \in 1..MaxClients, ev \in StreamEvents :
                   StreamEvent(i, ev, IF ev = "error" THEN 14 ELSE 0)
\* stream events; an error carries any of the codes
DoStreamEventCoded == \E i \in 1..MaxClients, ev \in StreamEvents, code \in ErrorCodes \cup {0} :
                        StreamEvent(i, ev, code)
DoSessionHeartbeat == \E i \in 1..MaxClients : SessionHeartbeat(i)
DoClientClose == ClientClose /\ UNCHANGED cliClosed
\* close() of a client whose connection is up
DoClientCloseLive == cli.connected /\ ClientClose /\ cliClosed' = TRUE

\* Flow control of one session: window, pump, transport pressure.
Init == InitPipe /\ ~heartbeatTimeout /\ cores = 2 /\ NoDispatch /\ NoClient /\ NoServer /\ NoLink
Next ==
  \/ DoPost
  \/ RunMicrotask
  \/ Tick
  \/ DoReceive
  \/ DoProcDone
  \/ DoTransportChange
Spec == Init /\ [][Next]_vars

\* Lifecycle of one session: heartbeat and destroy(), transport without write info.
LifeInit == InitPipe /\ ~hasWritableInfo /\ cores = 2 /\ NoDispatch /\ NoClient /\ NoServer /\ NoLink
LifeNext ==
  \/ DoPost
  \/ RunMicrotask
  \/ Tick
  \/ DoReceive
  \/ DoProcDone
  \/ HeartbeatFire
  \/ Destroy
LifeSpec == LifeInit /\ [][LifeNext]_vars

\* Inbound dispatch of one session: listener, handlers, processing queue, destroy().
DispatchInputs == {<<"data", TRUE>>, <<"data", FALSE>>, <<"reply", TRUE>>,
                   <<"system_heartbeat", TRUE>>, <<"nosuch", TRUE>>}
DoDeliver == \E in \in DispatchInputs :
               /\ Receive(in[1], in[2])
               /\ inbox' = Append(inbox, [type |-> in[1], good |-> in[2]])
DoPostReq == Post("req", "ok")
DispatchInit ==
  /\ InitPipe
  /\ maxInFlight \in {0, 1}
  /\ ~compressionEnabled
  /\ ~hasWritableInfo
  /\ ~heartbeatTimeout
  /\ NoClient
  /\ NoServer /\ NoLink
DispatchNext ==
  \/ DoDeliver
  \/ DoProcDone
  \/ DoPostReq
  \/ Tick
  \/ Destroy
DispatchSpec == DispatchInit /\ [][DispatchNext]_vars

\* Reserved sends of one session with a window: system posts and heartbeats.
DoRelease == Receive("reply", TRUE) /\ UNCHANGED inbox
SystemInit ==
  /\ InitPipe
  /\ maxInFlight # 0
  /\ heartbeatTimeout
  /\ ~hasWritableInfo
  /\ cores = 2
  /\ NoDispatch
  /\ NoClient
  /\ NoServer /\ NoLink
SystemNext ==
  \/ DoPost
  \/ RunMicrotask
  \/ Tick
  \/ HeartbeatFire
  \/ DoRelease
  \/ DoProcDone
SystemSpec == SystemInit /\ [][SystemNext]_vars

\* The client connection state machine.
ClientInit == NoPipe /\ InitClient /\ NoServer /\ NoLink
ClientNext ==
  \/ DoReadyResult
  \/ DoStreamEvent
  \/ TimerFire
  \/ ClientDestroy
  \/ DoClientClose
  \/ DoSessionHeartbeat
ClientSpec == ClientInit /\ [][ClientNext]_vars

\* The client around close(): a live connection is closed and the calls recorded.
CloseNext ==
  \/ DoReadyResult
  \/ DoStreamEvent
  \/ TimerFire
  \/ DoClientCloseLive
CloseSpec == ClientInit /\ [][CloseNext]_vars

\* The client's reaction to stream errors of every code, without teardown calls.
ErrorNext ==
  \/ DoReadyResult
  \/ DoStreamEventCoded
  \/ TimerFire
ErrorInit == ClientInit /\ reconnectBaseDelay = DefaultReconnectDelayMs
ErrorSpec == ErrorInit /\ [][ErrorNext]_vars


\* The same behaviours with the scheduling Node guarantees: a pending
\* setImmediate callback and a pending promise continuation do run.
FairSpec == Spec /\ WF_vars(Tick) /\ WF_vars(RunMicrotask)

\* The codec path between two sessions joined by a reliable ordered transport.
DoLinkPost == \E v \in PostedValues : LinkPost(v)
CodecInit == NoPipe /\ NoClient /\ NoServer /\ InitLink
CodecNext ==
  \/ DoLinkPost
  \/ LinkCompressed
  \/ LinkDeliver
CodecSpec == CodecInit /\ [][CodecNext]_vars

\* Handlers that unsubscribe while a message is dispatched: inbound frames,
\* the handlers' promises, and off() called from inside a running handler.
HandlerNames == {"h1", "h2"}
DoOff == \E w \in running, h \in HandlerNames :
           /\ w.pos > 0
           /\ IndexOf(callbacks[w.type], h) # 0
           /\ Off(w.type, h)
OffInit ==
  /\ InitPipe
  /\ maxInFlight = 0
  /\ ~compressionEnabled
  /\ ~hasWritableInfo
  /\ ~heartbeatTimeout
  /\ hasSchema
  /\ callbacks = Registered
  /\ NoClient
  /\ NoServer /\ NoLink
OffNext ==
  \/ DoDeliver
  \/ DoProcDone
  \/ DoOff
OffSpec == OffInit /\ [][OffNext]_vars

\* The Deque on its own: any sequence of push, shift and kill.
RestOfPipe == <<maxInFlight, compressionEnabled, hasWritableInfo, writableNeedDrain,
                writableLength, wire, inFlight, pumping, ticks, microtasks,
                heartbeatTimeout, procWaiting, procRunning, cores, inboundCount,
                releases, hbCount, destroyed, hbAfterDestroy, unhandled>>
QueuePushed ==
  /\ nextId < MaxPushes
  /\ nextId' = nextId + 1
  /\ LET v == [id |-> nextId + 1, type |-> "req", fate |-> "ok"]
     IN /\ postQueue' = DequePush(postQueue, v)
        /\ fifo' = Append(fifo, v)
  /\ UNCHANGED <<built, RestOfPipe, clientVars, dispatchVars, serverVars, codecVars>>
QueueShifted ==
  /\ postQueue' = DequeShift(postQueue).q
  /\ fifo' = IF fifo = <<>> THEN fifo ELSE Tail(fifo)
  /\ UNCHANGED <<built, nextId, RestOfPipe, clientVars, dispatchVars, serverVars, codecVars>>
QueueKilled ==
  /\ postQueue' = DequeKill(postQueue)
  /\ fifo' = <<>>
  /\ UNCHANGED <<built, nextId, RestOfPipe, clientVars, dispatchVars, serverVars, codecVars>>
DequeInit ==
  /\ InitPipe
  /\ maxInFlight = 0
  /\ ~compressionEnabled
  /\ ~hasWritableInfo
  /\ ~heartbeatTimeout
  /\ cores = 2
  /\ NoDispatch
  /\ NoClient
  /\ NoServer /\ NoLink
DequeNext ==
  \/ QueuePushed
  \/ QueueShifted
  \/ QueueKilled
DequeSpec == DequeInit /\ [][DequeNext]_vars

\* The host: `new PipeHandler(...)` on a host with any number of cores, then
\* inbound frames through the dispatcher.
Construct ==
  /\ built = "pending"
  /\ built' = IF Concurrency >= 1 THEN "ok" ELSE "threw"
  /\ UNCHANGED <<fifo, pipeVars, clientVars, dispatchVars, serverVars, codecVars>>
HostReceive == built = "ok" /\ DoReceive
HostProcDone == built = "ok" /\ DoProcDone
HostInit ==
  /\ InitPipeOn(1..MaxCores)
  /\ built = "pending"
  /\ fifo = <<>>
  /\ maxInFlight = 0
  /\ ~compressionEnabled
  /\ ~hasWritableInfo
  /\ ~heartbeatTimeout
  /\ NoClient
  /\ NoServer /\ NoLink
HostNext ==
  \/ Construct
  \/ HostReceive
  \/ HostProcDone
HostSpec == HostInit /\ [][HostNext]_vars

\* The server: incoming streams through the communicate handler, their events,
\* inbound frames, heartbeats, and destroy().
DoCommunicate == \E s \in 1..Len(sessions), pipeOk \in BOOLEAN, hookAct \in HookActs, act \in HookActs :
                   Communicate(s, pipeOk, hookAct, act)
DoBeforeConnectDone == \E s \in 1..Len(sessions), ok \in BOOLEAN, pipeOk \in BOOLEAN,
                          hookAct \in HookActs, act \in HookActs :
                         BeforeConnectDone(s, ok, pipeOk, hookAct, act)
DoOnConnectDone == \E s \in 1..Len(sessions), ok \in BOOLEAN, act \in HookActs :
                     OnConnectDone(s, ok, act)
DoServerStreamEvent == \E s \in 1..Len(sessions), ev \in ServerStreamEvents : ServerStreamEvent(s, ev)
DoServerReceive == \E s \in 1..Len(sessions) : ServerReceive(s)
DoServerHeartbeat == \E s \in 1..Len(sessions) : ServerHeartbeat(s)
ServerInit == NoPipe /\ NoClient /\ InitServer /\ NoLink
ServerNext ==
  \/ DoCommunicate
  \/ DoBeforeConnectDone
  \/ DoOnConnectDone
  \/ DoServerStreamEvent
  \/ DoServerReceive
  \/ DoServerHeartbeat
  \/ ServerDestroy
ServerSpec == ServerInit /\ [][ServerNext]_vars

\* ------------------------------------------------------------------ claims
NonSystemFrames == {i \in 1..Len(wire) : ~IsSystem(wire[i].type)}
WireIds == {wire[i].id : i \in 1..Len(wire)}
\* thunks the pump has taken out of the deferred-send queue
Shifted == {postQueue.a[i].id : i \in 1..Min(postQueue.h, Len(postQueue.a))}
QueueHead == postQueue.a[postQueue.h + 1]

\* C1: with maxInFlight = N, 0 <= inFlight <= N always, and the non-system
\* frames handed to the transport minus the releasing messages received
\* never exceed N.
C1_WindowBound ==
  maxInFlight # 0 =>
    /\ 0 <= inFlight
    /\ inFlight <= maxInFlight
    /\ Cardinality(NonSystemFrames) - releases <= maxInFlight
\* after a release the window is full again and a further post waits
C1_Witness ==
  /\ maxInFlight # 0
  /\ inFlight = maxInFlight
  /\ DequeLength(postQueue) > 0
  /\ releases > 0
  /\ Cardinality(NonSystemFrames) = maxInFlight + releases

\* C2: a post issued at a full window is handed to the transport only after
\* a releasing message, and once a slot was released while it is the oldest
\* queued post, it is eventually handed to the transport.
C2_Orig ==
  /\ [](maxInFlight # 0 => Cardinality(Shifted \cap WireIds) <= releases)
  /\ \A id \in 1..MaxPosts :
       (/\ maxInFlight # 0
        /\ DequeLength(postQueue) > 0
        /\ QueueHead.id = id
        /\ QueueHead.fate = "ok"
        /\ inFlight < maxInFlight) ~> (id \in WireIds)

\* C3: with no window configured the transport receives the posts in call
\* order, with and without the asynchronous compression step.
C3_Order ==
  maxInFlight = 0 =>
    \A i, j \in 1..Len(wire) : i < j => wire[i].id < wire[j].id
\* three posts went through the compression continuation
C3_Witness ==
  /\ maxInFlight = 0
  /\ compressionEnabled
  /\ Len(wire) = 3
  /\ microtasks = <<>>

\* C4: with no window configured, a non-system post is never handed to the
\* transport while the transport reports pressure.
C4_Orig ==
  maxInFlight = 0 =>
    \A i \in NonSystemFrames : ~wire[i].pressured

\* C5: from a fresh client the k-th consecutive failure arms its timer with
\* min(B * 2^(k-1), 30000).
C5_Orig ==
  (~everConnected /\ streak > 0) =>
    lastDelay = Min(reconnectBaseDelay * 2^(streak - 1), maxReconnectDelay)

\* C6: a Connected transition stores the base delay, and the first timer
\* armed after that connection is lost uses the base delay.
C6_Orig ==
  /\ [][(~cli.connected /\ cli'.connected) =>
          cli'.currentReconnectDelay = reconnectBaseDelay]_vars
  /\ []((everConnected /\ streak = 1) =>
          lastDelay = Min(reconnectBaseDelay, maxReconnectDelay))

\* C7: no reconnect timer is ever armed with more than the maximum delay.
C7_DelayCapped ==
  /\ cli.reconnectTimeout <= maxReconnectDelay
  /\ lastDelay <= maxReconnectDelay
\* a timer armed at the cap
C7_Witness ==
  /\ cli.reconnectTimeout = maxReconnectDelay
  /\ streak >= 1

\* C8: after destroy() no timer is pending, no Client is ever created again
\* whatever callbacks run, and destroy() is idempotent.
C8_DestroyFinal ==
  /\ [](cliDestroyed => cli.reconnectTimeout = 0 /\ ~cli.shouldReconnect)
  /\ [][cliDestroyed => nextClient' = nextClient]_vars
  /\ [](ClientDestroyOf(ClientDestroyOf(ClientState)) = ClientDestroyOf(ClientState))
\* destroyed, and a readiness or stream callback has run since
C8_Witness ==
  /\ cliDestroyed
  /\ ~cli.isReconnecting
  /\ readyPending = {}

\* C9: after destroy() the session handed out by the last 'connected' event
\* is destroyed and its heartbeat timer is stopped.
Delivered == {i \in 1..Len(streams) : streams[i].delivered}
C9_Orig ==
  (cliDestroyed /\ Delivered # {}) =>
    LET last == CHOOSE i \in Delivered : \A j \in Delivered : j <= i
    IN streams[last].pipeDestroyed /\ ~streams[last].pipeHb

\* C10: destroy(), called once or twice, leaves the deferred-send queue with
\* length 0, the processing queue empty and the heartbeat timer stopped.
C10_Orig ==
  /\ [][(~destroyed /\ destroyed') =>
          /\ DequeLength(postQueue') = 0
          /\ procWaiting' = <<>>
          /\ ~heartbeatTimeout']_vars
  /\ [](destroyed => ~heartbeatTimeout /\ ~hbAfterDestroy)
  /\ [](destroyed =>
          LET d == PipeDestroyOf(PipeDestroyOf(DestroyState))
          IN DequeLength(d.q) = 0 /\ d.waiting = <<>> /\ ~d.hb)

\* ------------------------------------------------- claims: inbound dispatch
\* types with the reserved prefix, spelled out for the claims
ReservedTypes == {"system_heartbeat", "system_ready"}
\* ids of the messages whose process() call is in progress
RunningIds == {w.m : w \in running}
\* the invocation history of message m
CallsOf(m) == SelectSeq(calls, LAMBDA e : e.m = m)
Invoked(m, who) == \E i \in 1..Len(calls) : calls[i] = Call(m, who, "call")
\* frame m passes the system filter, has a receive entry and decodes
Deliverable(m) ==
  /\ inbox[m].type \notin ReservedTypes
  /\ ~(hasSchema /\ inbox[m].type = "nosuch")
  /\ inbox[m].good
\* the step is the arrival of a frame
Arrives == Len(inbox') = Len(inbox) + 1
Arrived == inbox'[Len(inbox')]

\* C11: after destroy() an arriving message invokes neither the global
\* listener nor a handler (only executions already in progress go on), and
\* no thunk left in the deferred-send queue is run.
C11_Orig ==
  /\ [][destroyed =>
          \A i \in (Len(calls) + 1)..Len(calls') :
             calls'[i].who # "any" /\ calls'[i].m \in RunningIds]_vars
  /\ [][(destroyed /\ nextId' = nextId) => wire' = wire]_vars

\* C12: with a schema attached, a message whose type has no receive entry
\* invokes nothing, raises nothing, and leaves the processing queue and the
\* window alone; the global listener still sees every deliverable message.
C12_SchemaDrop ==
  /\ [][(Arrives /\ hasSchema /\ Arrived.type = "nosuch") =>
          /\ calls' = calls
          /\ unhandled' = unhandled
          /\ <<procWaiting', running', procRunning'>> = <<procWaiting, running, procRunning>>
          /\ inFlight' = inFlight]_vars
  /\ [](globalListener =>
          \A m \in 1..Len(inbox) : Deliverable(m) => Invoked(m, "any"))
\* an unregistered type was dropped and the next message reached its handler
C12_Witness ==
  /\ hasSchema
  /\ Len(inbox) = 2
  /\ inbox[1].type = "nosuch"
  /\ Invoked(2, "h1")
  /\ ~unhandled

\* C13: a payload that fails to decode is dropped without invoking anything,
\* without changing inFlight, and the failure does not escape the inbound path.
C13_Orig ==
  /\ [][(Arrives /\ ~Arrived.good) =>
          /\ calls' = calls
          /\ inFlight' = inFlight]_vars
  /\ [](~unhandled)

\* C14: a reserved send (a post of a system type, a heartbeat) is never put
\* in the deferred-send queue, goes out at a full window, and leaves the
\* in-flight counter and the queue as they were.
NewReservedSend ==
  \/ /\ Len(wire') = Len(wire) + 1
     /\ wire'[Len(wire')].type \in ReservedTypes
  \/ /\ Len(microtasks') = Len(microtasks) + 1
     /\ microtasks'[Len(microtasks')].type \in ReservedTypes
C14_SystemBypass ==
  /\ [](\A i \in 1..Len(postQueue.a) : postQueue.a[i].type \notin ReservedTypes)
  /\ [][(nextId' = nextId + 1 /\ NewReservedSend) =>
          inFlight' = inFlight /\ postQueue' = postQueue]_vars
  /\ [][hbCount' = hbCount + 1 =>
          /\ Len(wire') = Len(wire) + 1
          /\ wire'[Len(wire')].type = "system_heartbeat"
          /\ inFlight' = inFlight
          /\ postQueue' = postQueue]_vars
\* a system post and a heartbeat went out while the window was full and a
\* post issued before them is still waiting in the queue
C14_Witness ==
  /\ inFlight = maxInFlight
  /\ DequeLength(postQueue) > 0
  /\ \E i \in 1..Len(wire) :
       /\ wire[i].type = "system_ready"
       /\ wire[i].id > QueueHead.id
  /\ \E j \in 1..Len(wire) : wire[j].type = "system_heartbeat"

\* C15: an inbound frame of a reserved type reaches neither the global
\* listener nor a handler and does not change inFlight, even with a handler
\* registered for it and the type listed in releaseOn.
C15_SystemInbound ==
  /\ [][(Arrives /\ Arrived.type \in ReservedTypes) =>
          /\ calls' = calls
          /\ inFlight' = inFlight
          /\ releases' = releases
          /\ <<procWaiting', running', procRunning'>> = <<procWaiting, running, procRunning>>]_vars
  /\ [](\A m \in 1..Len(inbox) : inbox[m].type \in ReservedTypes => CallsOf(m) = <<>>)
\* a system frame arrived at a session with listener, handler, releaseOn entry
\* and an occupied window
C15_Witness ==
  /\ globalListener
  /\ callbacks["system_heartbeat"] # <<>>
  /\ "system_heartbeat" \in ReleaseOn
  /\ maxInFlight = 1
  /\ inFlight = 1
  /\ \E m \in 1..Len(inbox) : inbox[m].type = "system_heartbeat"

\* C16: when one handler of a message fails, every other handler registered
\* for that message type is still invoked for that message.
Failed(m) == \E i \in 1..Len(calls) : calls[i].m = m /\ calls[i].ev = "fail"
C16_Orig ==
  \A m \in 1..Len(inbox) :
    (Failed(m) /\ m \notin RunningIds) =>
      \A k \in 1..Len(Registered[inbox[m].type]) :
        Invoked(m, Registered[inbox[m].type][k])

\* C17: a handler failure frees its processing slot, and every other message
\* (waiting or arriving later) is still dispatched to its handlers.
WaitingIds == {procWaiting[i].m : i \in 1..Len(procWaiting)}
C17_DispatcherFree ==
  /\ procRunning = Cardinality(running)
  /\ \A m \in 1..Len(inbox) : Failed(m) => m \notin RunningIds
  /\ procWaiting # <<>> => procRunning >= Concurrency
  /\ (~destroyed /\ callbacks = Registered) =>
       \A m \in 1..Len(inbox) :
         Deliverable(m) => (m \in WaitingIds \/ Invoked(m, Registered[inbox[m].type][1]))
\* message 2 waited while the handler of message 1 ran; that handler failed
\* and message 2 was dispatched next
C17_Witness ==
  calls = <<Call(1, "any", "call"), Call(1, "h1", "call"), Call(2, "any", "call"),
            Call(1, "h1", "fail"), Call(2, "h1", "call")>>

\* C18: per message, the global listener is invoked first, in the arrival
\* step and before the message is queued, then the handlers in registration
\* order, each settled before the next is invoked.
C18_Order ==
  /\ [][(Arrives /\ Len(calls') > Len(calls) /\ globalListener) =>
          calls'[Len(calls) + 1] = Call(Len(inbox'), "any", "call")]_vars
  /\ [](\A m \in 1..Len(inbox) :
          LET c == CallsOf(m)
              H == Registered[inbox[m].type]
              off == IF globalListener THEN 1 ELSE 0
          IN /\ (globalListener /\ c # <<>>) => c[1] = Call(m, "any", "call")
             /\ \A i \in (off + 1)..Len(c) :
                  LET k == (i - off + 1) \div 2
                  IN /\ k <= Len(H)
                     /\ IF (i - off) % 2 = 1
                        THEN c[i] = Call(m, H[k], "call")
                        ELSE c[i].who = H[k] /\ c[i].ev \in {"ok", "fail"})
\* a message went through the listener and both of its handlers
C18_Witness ==
  /\ Len(inbox) >= 1
  /\ CallsOf(1) = <<Call(1, "any", "call"), Call(1, "h1", "call"), Call(1, "h1", "ok"),
                    Call(1, "h2", "call"), Call(1, "h2", "ok")>>

\* ------------------------------------------------------- claims: client
\* C19: a stream error emits 'error' to the application exactly when its
\* code is none of 14, 13, 4; with either kind of code the disconnect path
\* runs: session destroyed, not connected, reconnect armed, 'disconnected'
\* emitted.
C19_ErrorSurfaced ==
  /\ [](IF \E i \in 1..Len(streams) : "error" \in streams[i].fired
        THEN lastError.emitted = (lastError.code \notin {14, 13, 4})
        ELSE ~lastError.emitted)
  /\ [][\A i \in 1..Len(streams) :
          ("error" \notin streams[i].fired /\ "error" \in streams'[i].fired) =>
             /\ streams'[i].pipeDestroyed
             /\ ~streams'[i].pipeHb
             /\ ~cli'.connected
             /\ ~cliDestroyed => cli'.reconnectTimeout # 0
             /\ streams'[i].disconnected = streams[i].disconnected + 1]_vars
\* one connection was lost with a recoverable code, a later one with another code
C19_Witness ==
  /\ lastError = [code |-> 2, emitted |-> TRUE]
  /\ cli.reconnectTimeout # 0
  /\ \E i \in 1..Len(streams) : streams[i].fired = {"metadata", "error"}

\* C20: short of destroy() and close(), the client is never stuck: when it is
\* not connected, a readiness check or a stream is pending or the reconnect
\* timer is armed, and no callback leaves that condition.
StreamPending ==
  /\ cli.stream # 0
  /\ streams[cli.stream].listeners
  /\ streams[cli.stream].fired = {}
Progressing ==
  cli.connected \/ readyPending # {} \/ cli.reconnectTimeout # 0 \/ StreamPending
\* the step of close(): the armed timer is cancelled and nothing else changes
CloseStep ==
  /\ cli.reconnectTimeout # 0
  /\ cli' = [cli EXCEPT !.reconnectTimeout = 0]
  /\ UNCHANGED <<streams, readyPending, nextClient>>
C20_Orig ==
  [][(~cliDestroyed /\ ~cliDestroyed' /\ Progressing /\ ~CloseStep) => Progressing']_vars

\* C21: for every session handed to a 'connection' listener, once its stream
\* has ended, errored or closed (at any point of the handler, the wait for a
\* connect hook included) or the server was destroyed, 'disconnected' has been
\* emitted exactly once for it and the session is destroyed.
C21_Orig ==
  \A s \in 1..Len(sessions) :
    (sessions[s].connection /\ (sessions[s].fired # {} \/ server.destroyed))
      => (sessions[s].disconnected = 1 /\ sessions[s].pipe = "destroyed")

\* C22: when beforeConnect, the construction of the session or onConnect
\* failed for a stream, the stream is destroyed, no 'connection' event carried
\* the session, the stream is not among the active streams and no system_ready
\* frame was written on it.
C22_NotExposed ==
  \A s \in 1..Len(sessions) :
    sessions[s].failed =>
      /\ sessions[s].streamDestroyed
      /\ ~sessions[s].connection
      /\ ~sessions[s].inStreams
      /\ \A k \in 1..Len(sessions[s].frames) : sessions[s].frames[k] # "system_ready"

\* C22 witness: onConnect failed for a session that had been constructed
C22_Witness ==
  \E s \in 1..Len(sessions) :
    sessions[s].failed /\ sessions[s].pipe = "live" /\ sessions[s].streamDestroyed

ReadyAt(x) == {k \in 1..Len(x.frames) : x.frames[k] = "system_ready"}

\* C23: per stream, system_ready is written exactly once when the connection is
\* accepted and never otherwise, only with the session created and the hooks
\* completed, and every frame written before it was posted by a hook or a
\* listener.
C23_Orig ==
  \A s \in 1..Len(sessions) :
    /\ Cardinality(ReadyAt(sessions[s])) = (IF sessions[s].phase = "open" THEN 1 ELSE 0)
    /\ ReadyAt(sessions[s]) # {} => sessions[s].pipe # "none" /\ ~sessions[s].failed
    /\ \A k \in ReadyAt(sessions[s]) : \A j \in 1..(k - 1) : sessions[s].frames[j] = "hello"

\* C23 (amended): as C23, but a frame written before system_ready was posted by
\* a hook or a listener, or is a heartbeat of the session's interval, which
\* runs from the construction of the session.
C23_ReadyOnce ==
  \A s \in 1..Len(sessions) :
    /\ Cardinality(ReadyAt(sessions[s])) = (IF sessions[s].phase = "open" THEN 1 ELSE 0)
    /\ ReadyAt(sessions[s]) # {} => sessions[s].pipe # "none" /\ ~sessions[s].failed
    /\ \A k \in ReadyAt(sessions[s]) : \A j \in 1..(k - 1) :
         sessions[s].frames[j] \in {"hello", "system_heartbeat"}

\* C23 witness: an accepted connection whose system_ready follows a heartbeat
C23_Witness ==
  \E s \in 1..Len(sessions) :
    /\ sessions[s].phase = "open"
    /\ Len(sessions[s].frames) >= 2
    /\ sessions[s].frames[1] = "system_heartbeat"
    /\ ReadyAt(sessions[s]) # {}

\* C24: with maxInFlight set, a post() that finds a free window slot is not
\* deferred: unless its send fails it is handed over at once; and a pump pass
\* never stops with a queued send and a free slot, whatever the transport
\* reports about its buffer.
C24_WindowOnly ==
  /\ [][(nextId' = nextId + 1 /\ maxInFlight # 0 /\ inFlight < maxInFlight)
         => /\ postQueue' = postQueue
            /\ \/ \E k \in 1..Len(wire') : wire'[k].id = nextId'
               \/ \E k \in 1..Len(microtasks') : microtasks'[k].id = nextId'
               \/ inFlight' = inFlight]_vars
  /\ [](maxInFlight # 0 =>
         LET s == PumpOnce(SendState)
         IN DequeLength(s.q) = 0 \/ s.inFlight >= maxInFlight)

\* C24 witness: with a window set, a send that had waited in the queue while a
\* later post went out was handed to a transport that reported pressure
C24_Witness ==
  /\ maxInFlight # 0
  /\ \E k \in 1..Len(wire), j \in 1..Len(wire) :
       k < j /\ wire[k].id > wire[j].id /\ wire[j].pressured /\ wire[j].type = "req"

\* C25: every message decoded on a session the server has accepted was emitted
\* as an 'incoming' event, whatever the onConnect hook or a 'connection'
\* listener did with the session, pipe.onAny() included.
C25_Orig ==
  \A s \in 1..Len(sessions) :
    sessions[s].incoming = sessions[s].decoded - sessions[s].early

\* C26: once close() has been called on a connected client, no reconnect timer
\* is pending or armed again and no new Client is created: the end / close
\* events of the closed stream start nothing.
C26_Orig ==
  /\ [](cliClosed => cli.reconnectTimeout = 0)
  /\ [][cliClosed => nextClient' = nextClient]_vars

LiveStreams ==
  {i \in 1..Len(streams) :
     streams[i].listeners /\ streams[i].fired \cap {"error", "end", "close"} = {}}

\* C28: a client never has two connection attempts under way, whatever the
\* order of timer expiries and stream events, late events of a replaced stream
\* included; a connect() that finds the guard set creates no Client.
C28_Orig ==
  /\ [](~cliDestroyed => Cardinality(readyPending) + Cardinality(LiveStreams) <= 1)
  /\ [][cli.isReconnecting => nextClient' = nextClient]_vars

\* C29: with maxInFlight set, the arrival of a frame that decodes and whose
\* type is the release type takes one from inFlight, or leaves it at 0; the
\* arrival of any other frame (another type, a reserved type, a type without
\* schema entry, a payload that fails to decode) leaves inFlight as it was.
C29_ReleaseEffect ==
  [][(inboundCount' = inboundCount + 1 /\ maxInFlight # 0) =>
       LET in == inbox'[Len(inbox')]
           decoded == /\ in.good
                      /\ in.type \notin ReservedTypes
                      /\ ~(hasSchema /\ in.type = "nosuch")
       IN IF decoded /\ in.type = "reply"
          THEN inFlight' = (IF inFlight > 0 THEN inFlight - 1 ELSE 0)
          ELSE inFlight' = inFlight]_vars

\* C29 witness: a reply has arrived after a send and emptied the window, and a
\* frame of another type had arrived before it
C29_Witness ==
  /\ maxInFlight # 0
  /\ Len(wire) >= 1
  /\ inFlight = 0
  /\ Len(inbox) >= 2
  /\ inbox[Len(inbox)] = [type |-> "reply", good |-> TRUE]
  /\ inbox[1].type # "reply"
  /\ releases = 1

\* the post with this id was neither deferred nor handed over: its encode threw,
\* or its transport.send threw inside _sendNow (with compression the send runs
\* in a later continuation and cannot fail inside _sendNow)
Nowhere(id) ==
  /\ \A k \in 1..Len(wire) : wire[k].id # id
  /\ \A k \in 1..Len(microtasks) : microtasks[k].id # id
  /\ \A k \in 1..Len(postQueue.a) : postQueue.a[k].id # id

\* the post made by this step is nowhere afterwards
FailedPostStep ==
  /\ \A k \in 1..Len(wire') : wire'[k].id # nextId'
  /\ \A k \in 1..Len(microtasks') : microtasks'[k].id # nextId'
  /\ \A k \in 1..Len(postQueue'.a) : postQueue'.a[k].id # nextId'

\* C30: with maxInFlight set, a post() whose send fails synchronously leaves
\* inFlight as it was before the call, lets no error escape, and leaves the
\* queue, the pending sends and the frames on the wire untouched.
C30_Rollback ==
  [][(nextId' = nextId + 1 /\ maxInFlight # 0 /\ FailedPostStep) =>
       /\ inFlight' = inFlight
       /\ unhandled' = unhandled
       /\ wire' = wire /\ microtasks' = microtasks /\ postQueue' = postQueue]_vars

\* C30 witness: the first post failed, the window is still empty for the
\* second, which was handed to the transport
C30_Witness ==
  /\ maxInFlight # 0
  /\ nextId = 2
  /\ Nowhere(1)
  /\ inboundCount = 0
  /\ inFlight = 1
  /\ \E k \in 1..Len(wire) : wire[k].id = 2 /\ wire[k].type = "req"

\* --------------------------------------------- claims: the deferred-send queue
\* the thunks waiting in a Deque, oldest first
Pending(q) == SubSeq(q.a, q.h + 1, Len(q.a))
PendingIds(q) == {Pending(q)[k].id : k \in 1..Len(Pending(q))}
\* the position of the thunk with this id among the waiting ones
PendingPos(q, id) == CHOOSE k \in 1..Len(Pending(q)) : Pending(q)[k].id = id

\* C31: in a pump pass, once a queued send has failed synchronously (it left
\* the queue and was handed neither to the transport nor to the compressor),
\* no thunk queued behind it is executed in that pass.
C31_Orig ==
  [][(nextId' = nextId /\ inboundCount' = inboundCount /\ postQueue' # postQueue) =>
       \A f \in PendingIds(postQueue) \ PendingIds(postQueue') :
         ((\A k \in 1..Len(wire') : wire'[k].id # f)
            /\ (\A k \in 1..Len(microtasks') : microtasks'[k].id # f))
         => \A g \in PendingIds(postQueue) \ PendingIds(postQueue') :
              PendingPos(postQueue, g) <= PendingPos(postQueue, f)]_vars

\* C32: at most one pump tick is pending; the pumping flag is set exactly while
\* a tick is pending; whenever the deferred-send queue is non-empty a tick is
\* pending; and the flag is cleared only by a step that leaves the queue empty.
C32_OnePump ==
  /\ [](ticks \in {0, 1}
        /\ (pumping <=> ticks = 1)
        /\ (DequeLength(postQueue) > 0 => ticks = 1))
  /\ [][(pumping /\ ~pumping') => DequeLength(postQueue') = 0]_vars
\* a post issued while the pump is active and the queue already holds a thunk
C32_Witness == pumping /\ ticks = 1 /\ DequeLength(postQueue) >= 2 /\ inboundCount >= 1

\* the ids of the posts that were handed on or are waiting, in one sequence
PostTrail ==
  [k \in 1..Len(wire) |-> wire[k].id]
    \o [k \in 1..Len(microtasks) |-> microtasks[k].id]
    \o [k \in 1..Len(Pending(postQueue)) |-> Pending(postQueue)[k].id]
\* the thunks that a step takes out of the deferred-send queue
Removed == PendingIds(postQueue) \ PendingIds(postQueue')
WirePos(w, id) == CHOOSE k \in 1..Len(w) : w[k].id = id

\* C33: no post appears twice among the frames handed to the transport, the
\* sends awaiting compression and the queued thunks; a step that takes thunks
\* out of the queue takes them oldest first (destroy() takes all of them and
\* hands none to the transport), and hands them to the transport in queue order.
C33_Fifo ==
  /\ [](\A j, k \in 1..Len(PostTrail) :
          (j < k /\ PostTrail[j] # 0) => PostTrail[j] # PostTrail[k])
  /\ [][(postQueue'.h # postQueue.h \/ Len(postQueue'.a) < Len(postQueue.a)) =>
          /\ \A f \in Removed : \A k \in 1..Len(Pending(postQueue)) :
               k < PendingPos(postQueue, f) => Pending(postQueue)[k].id \in Removed
          /\ (destroyed' /\ ~destroyed) => (wire' = wire /\ PendingIds(postQueue') = {})
          /\ \A f, g \in Removed :
               (/\ PendingPos(postQueue, f) < PendingPos(postQueue, g)
                /\ \E k \in 1..Len(wire') : wire'[k].id = f
                /\ \E k \in 1..Len(wire') : wire'[k].id = g)
                 => WirePos(wire', f) < WirePos(wire', g)]_vars
\* one deferred send reached the transport and destroy() discarded the next
C33_Witness ==
  /\ destroyed
  /\ nextId = 3
  /\ postQueue = [a |-> <<>>, h |-> 1]
  /\ \E k \in 1..Len(wire) : wire[k].id = 2
  /\ \A k \in 1..Len(wire) : wire[k].id # 3

\* C34: on a host with any number of cores >= 1 the construction of a session
\* succeeds, with a dispatcher concurrency of at least 1.
C34_Orig == built # "pending" => (built = "ok" /\ Concurrency >= 1)

\* C36: when the dispatch of a "data" message has ended without a handler
\* failure, every handler that is still registered for "data" was invoked for
\* that message, also when handlers unsubscribed during the dispatch.
C36_Orig ==
  \A m \in 1..Len(inbox) :
    (/\ inbox[m] = [type |-> "data", good |-> TRUE]
     /\ \A w \in running : w.m # m
     /\ \A k \in 1..Len(procWaiting) : procWaiting[k].m # m
     /\ \A k \in 1..Len(calls) : ~(calls[k].m = m /\ calls[k].ev = "fail"))
      => \A j \in 1..Len(callbacks["data"]) :
           \E k \in 1..Len(calls) : calls[k] = Call(m, callbacks["data"][j], "call")

\* C35: with a window configured, the non-system frames on the transport are
\* in post() order, and no non-system frame is on the transport while an
\* earlier post still waits in the deferred-send queue.
C35_Orig ==
  maxInFlight # 0 =>
    /\ \A j, k \in 1..Len(wire) :
         (j < k /\ ~IsSystem(wire[j].type) /\ ~IsSystem(wire[k].type))
           => wire[j].id < wire[k].id
    /\ \A k \in 1..Len(wire) : \A p \in PendingIds(postQueue) :
         ~IsSystem(wire[k].type) => wire[k].id < p

\* C37: for every stream of the client, 'disconnected' is emitted at most once,
\* and only when 'connected' was emitted for that stream before.
C37_Orig ==
  \A i \in 1..Len(streams) :
    /\ streams[i].disconnected <= 1
    /\ streams[i].disconnected >= 1 => streams[i].delivered

\* C38: a session whose construction succeeded and whose stream the handler
\* then rejected (the onConnect hook failed) is destroyed, and from then on no
\* frame is written on its stream.
C38_Orig ==
  /\ [](\A s \in 1..Len(sessions) :
          sessions[s].phase = "rejected" => sessions[s].pipe # "live")
  /\ [][\A s \in 1..Len(sessions) :
          sessions[s].phase = "rejected" => sessions'[s].frames = sessions[s].frames]_vars

\* C39: a post() on a destroyed session hands nothing to the transport or to
\* the compressor and changes neither inFlight nor the deferred-send queue.
C39_Orig ==
  [][(destroyed /\ nextId' = nextId + 1) =>
       /\ wire' = wire
       /\ microtasks' = microtasks
       /\ inFlight' = inFlight
       /\ postQueue' = postQueue]_vars

\* C40: the Deque's length is the number of values pushed and not yet shifted
\* or killed, and shift() returns the oldest of them (undefined when there is
\* none), under every sequence of push, shift and kill.
C40_Orig ==
  /\ DequeLength(postQueue) = Len(fifo)
  /\ DequeShift(postQueue).defined = (fifo # <<>>)
  /\ fifo # <<>> => DequeShift(postQueue).v = Head(fifo)
====
